---- MODULE Spec2Model ----
(***************************************************************************)
(* Model of lib/repository_pool.c: the repository pool (a SIMPLEQ of       *)
(* repository_pool entries guarded by the repolist_initialized flag), its  *)
(* construction by xbps_repository_pool_init(), its teardown by            *)
(* xbps_repository_pool_release() and its traversal by                     *)
(* xbps_repository_pool_foreach().                                         *)
(*                                                                         *)
(* The loops of init and foreach are modelled one iteration per step, the  *)
(* position being kept in pc/idx/rpool; everything else an operation does  *)
(* (its cleanup at the out: label included) is part of the step that       *)
(* returns.  The pool is single threaded: a new operation starts only when *)
(* pc = "idle".                                                            *)
(***************************************************************************)
EXTENDS Integers, Sequences, FiniteSets, TLC

\* ---------------------------------------------------------------- bounds
MaxRepos == 3      \* longest configured repository list
MaxNodes == 4      \* malloc() arena: number of entry cells
MaxTokens == 3     \* longest URI, in tokens, handed to check_repo_arch()

\* ------------------------------------------------------------- constants
ENOENT  == 2
ENOMEM  == 12
EIO     == 5
ENOTSUP == 95
NULL    == 0

\* Repository URIs are character strings; strrchr()/strcmp() work on them.
NoArch == <<"n","o","a","r","c","h">>
Machines == { <<"i","6","8","6">>, <<"a","r","m">> }

UriA == <<"a","/">> \o NoArch
UriB == <<"b","/">> \o NoArch
UriC == <<"c","/","i","6","8","6">>
Uris == {UriA, UriB, UriC}

Nodes == 1..MaxNodes

\* errno values left by a failing allocation / a failing internalize
AllocErrnos == {ENOMEM}
DeserErrnos == {ENOMEM, EIO}

VARIABLES
  machine,               \* un.machine as uname() reports it
  repos_array,           \* xhp->repos_array: [state, items]
  repolist_initialized,  \* static bool repolist_initialized
  rpool_queue,           \* static SIMPLEQ rpool_queue: sequence of cells
  heap,                  \* cell -> [live, uri]: malloc'ed repository_pool
  doublefree,            \* a cell that was not live has been free()d
  pc,                    \* "idle", "init_loop", "foreach_loop"
  caller,                \* "init" or "foreach": who runs the init loop
  iterlist,              \* the objects the iterator of init has returned
  idx,                   \* position of that iterator
  ntotal, nmissing,      \* counters of init
  itlog,                 \* one record per iteration of the init loop
  calls,                 \* collaborators invoked by the latest iteration
  step_errno,            \* errno left by the step that sent init to out:
  init_rv,               \* what the last call of init returned (-1: none)
  ret,                   \* [op, rv]: the operation called last and its rv
  rpool,                 \* foreach: cell being visited (NULL: none)
  snapshot,              \* foreach: the queue when the traversal began
  visited                \* foreach: one record per callback invocation

vars == <<machine, repos_array, repolist_initialized, rpool_queue, heap,
          doublefree, pc, caller, iterlist, idx, ntotal, nmissing, itlog,
          calls, step_errno, init_rv, ret, rpool, snapshot, visited>>

FreeCell == [live |-> FALSE, uri |-> <<>>]

Init ==
  /\ machine \in Machines
  /\ repos_array = [state |-> "null", items |-> <<>>]
  /\ repolist_initialized = FALSE
  /\ rpool_queue = <<>>
  /\ heap = [n \in Nodes |-> FreeCell]
  /\ doublefree = FALSE
  /\ pc = "idle"
  /\ caller = "init"
  /\ iterlist = <<>>
  /\ idx = 0
  /\ ntotal = 0
  /\ nmissing = 0
  /\ itlog = <<>>
  /\ calls = <<>>
  /\ step_errno = 0
  /\ init_rv = -1
  /\ ret = [op |-> "none", rv |-> 0]
  /\ rpool = NULL
  /\ snapshot = <<>>
  /\ visited = <<>>

\* ------------------------------------------------------ pure helpers

\* strrchr(uri, '/'): index of the last '/', 0 when there is none
RECURSIVE LastSlash(_, _)
LastSlash(uri, i) ==
  IF i = 0 THEN 0
  ELSE IF uri[i] = "/" THEN i
  ELSE LastSlash(uri, i - 1)

\* without the test of strrchr()'s result the whole string is compared
check_repo_archNoSeparator(uri, mach) ==
  LET s == LastSlash(uri, Len(uri))
      p == SubSeq(uri, s + 1, Len(uri))
  IN  IF p = <<>> THEN FALSE
      ELSE IF p = NoArch THEN TRUE
      ELSE IF p = mach THEN TRUE
      ELSE FALSE

\* check_repo_arch(): last path component is "noarch" or un.machine
check_repo_arch(uri, mach) ==
  LET s == LastSlash(uri, Len(uri))
      p == SubSeq(uri, s + 1, Len(uri))
  IN  IF s = 0 THEN FALSE
      ELSE IF p = <<>> THEN FALSE
      ELSE IF p = NoArch THEN TRUE
      ELSE IF p = mach THEN TRUE
      ELSE FALSE

\* a duplicate check that only looks at the head of the queue
duprepoHeadOnly(q, hp, repouri) ==
  q # <<>> /\ hp[q[1]].uri = repouri

\* the SIMPLEQ_FOREACH of init: some queued entry has this rpi_uri
duprepo(q, hp, repouri) ==
  \E i \in 1..Len(q) : hp[q[i]].uri = repouri

\* malloc(): the lowest free cell, NULL when the arena is exhausted
malloc(hp) ==
  IF \E n \in Nodes : ~hp[n].live
  THEN CHOOSE n \in Nodes : ~hp[n].live /\ \A m \in Nodes : ~hp[m].live => n <= m
  ELSE NULL

\* SIMPLEQ_NEXT(cell): the cell after it in the queue, NULL at the tail
SimpleqNext(q, cell) ==
  IF \E i \in 1..Len(q) : q[i] = cell
  THEN LET i == CHOOSE j \in 1..Len(q) : q[j] = cell
       IN  IF i < Len(q) THEN q[i + 1] ELSE NULL
  ELSE NULL

\* SIMPLEQ_FIRST
SimpleqFirst(q) == IF q = <<>> THEN NULL ELSE q[1]

\* SIMPLEQ_REMOVE(cell)
SimpleqRemove(q, cell) == SelectSeq(q, LAMBDA n : n # cell)

\* free() of every cell in cs
FreeCells(hp, cs) == [n \in Nodes |-> IF n \in cs THEN FreeCell ELSE hp[n]]

\* the rpi_uri of the queued entries, in queue order
QueueUris(q, hp) == [i \in 1..Len(q) |-> hp[q[i]].uri]

\* xbps_repository_pool_release(): the state it leaves, as
\* [init, queue, heap, dfree]; nothing is touched unless the flag is set
PoolRelease(initialized, q, hp, df) ==
  IF ~initialized
  THEN [init |-> initialized, queue |-> q, heap |-> hp, dfree |-> df]
  ELSE [init  |-> FALSE,
        queue |-> <<>>,
        heap  |-> FreeCells(hp, {q[i] : i \in 1..Len(q)}),
        dfree |-> df \/ \E i \in 1..Len(q) : ~hp[q[i]].live]

\* ------------------------------------------------- returning to the caller

ReturnIgnoresFailure(c, rvv, q) ==
  IF c = "foreach" /\ SimpleqFirst(q) # NULL
  THEN /\ pc' = "foreach_loop"
       /\ init_rv' = rvv
       /\ ret' = [op |-> "foreach", rv |-> 0]
       /\ rpool' = SimpleqFirst(q)
       /\ snapshot' = q
  ELSE /\ pc' = "idle"
       /\ init_rv' = rvv
       /\ ret' = [op |-> c, rv |-> rvv]
       /\ rpool' = NULL
       /\ snapshot' = <<>>

\* init returns rvv to its caller c with the queue q: a direct caller gets
\* rvv; foreach returns a failure as it is (lines 264-272) and otherwise
\* enters its SIMPLEQ_FOREACH_SAFE with rpool = SIMPLEQ_FIRST (line 274)
Return(c, rvv, q) ==
  IF c = "foreach" /\ rvv = 0 /\ SimpleqFirst(q) # NULL
  THEN /\ pc' = "foreach_loop"
       /\ init_rv' = rvv
       /\ ret' = [op |-> "foreach", rv |-> 0]
       /\ rpool' = SimpleqFirst(q)
       /\ snapshot' = q
  ELSE /\ pc' = "idle"
       /\ init_rv' = rvv
       /\ ret' = [op |-> c, rv |-> rvv]
       /\ rpool' = NULL
       /\ snapshot' = <<>>

\* the out: label of init (lines 219-225): a failure runs
\* xbps_repository_pool_release() on the state the build has reached
InitOut(c, rvv, initialized, q, hp) ==
  LET r == IF rvv # 0
           THEN PoolRelease(initialized, q, hp, doublefree)
           ELSE [init |-> initialized, queue |-> q, heap |-> hp,
                 dfree |-> doublefree]
  IN  /\ repolist_initialized' = r.init
      /\ rpool_queue' = r.queue
      /\ heap' = r.heap
      /\ doublefree' = r.dfree
      /\ Return(c, rvv, r.queue)

\* ------------------------------------------------- reading repos_array
\* A valid array yields its items.  An array that prop_object_release()
\* has dropped (line 217) may be freed memory: its count and the objects
\* its iterator returns are then arbitrary.

CountMayBeZero ==
  \/ repos_array.state = "valid" /\ Len(repos_array.items) = 0
  \/ repos_array.state = "released"

CountNotTested ==
  repos_array.state \in {"valid", "released"}

CountMayBePositive ==
  \/ repos_array.state = "valid" /\ Len(repos_array.items) > 0
  \/ repos_array.state = "released"

\* prop_object_iterator_next(): the objects it may return at position idx
IterNextObjs ==
  IF repos_array.state = "valid"
  THEN IF idx \in 1..Len(repos_array.items)
       THEN {repos_array.items[idx]} ELSE {}
  ELSE IF idx \in 1..MaxRepos THEN Uris ELSE {}

\* prop_object_iterator_next() may return NULL at position idx
IterMayEnd ==
  IF repos_array.state = "valid" THEN idx > Len(repos_array.items) ELSE TRUE

\* ------------------------------------------------------- init: entry

\* lines 104-108: which way the first two tests of init send the call
EntryPathNoFlag(arraystate, initialized) ==
  IF arraystate = "null" THEN "noarray" ELSE "build"

EntryPath(arraystate, initialized) ==
  IF arraystate = "null" THEN "noarray"
  ELSE IF initialized THEN "initialized"
  ELSE "build"

\* lines 103-117 of xbps_repository_pool_init(), called by c
InitEntry(c) ==
  /\ pc = "idle"
  /\ caller' = c
  /\ itlog' = <<>>
  /\ calls' = <<>>
  /\ visited' = <<>>
  /\ iterlist' = <<>>
  /\ ntotal' = 0
  /\ nmissing' = 0
  /\ UNCHANGED <<machine, repos_array>>
  /\ LET path == EntryPath(repos_array.state, repolist_initialized)
     IN
     \/ \* repos_array == NULL
        /\ path = "noarray"
        /\ idx' = 0 /\ step_errno' = 0
        /\ UNCHANGED <<repolist_initialized, rpool_queue, heap, doublefree>>
        /\ Return(c, ENOTSUP, rpool_queue)
     \/ \* already initialized
        /\ path = "initialized"
        /\ idx' = 0 /\ step_errno' = 0
        /\ UNCHANGED <<repolist_initialized, rpool_queue, heap, doublefree>>
        /\ Return(c, 0, rpool_queue)
     \/ \* prop_array_count() == 0
        /\ path = "build"
        /\ CountMayBeZero
        /\ idx' = 0 /\ step_errno' = 0
        /\ UNCHANGED <<repolist_initialized, rpool_queue, heap, doublefree>>
        /\ Return(c, ENOTSUP, rpool_queue)
     \/ \* prop_array_iterator() fails
        /\ path = "build"
        /\ CountMayBePositive
        /\ idx' = 0
        /\ \E e \in AllocErrnos :
             /\ step_errno' = e
             /\ InitOut(c, e, repolist_initialized, rpool_queue, heap)
     \/ \* the loop starts
        /\ path = "build"
        /\ CountMayBePositive
        /\ idx' = 1 /\ step_errno' = 0 /\ init_rv' = -1
        /\ pc' = "init_loop"
        /\ ret' = [op |-> c, rv |-> 0]
        /\ snapshot' = <<>>
        /\ UNCHANGED <<repolist_initialized, rpool_queue, heap, doublefree,
                       rpool>>

xbps_repository_pool_init == InitEntry("init")

xbps_repository_pool_foreach == InitEntry("foreach")

\* ---------------------------------------------- init: one loop iteration

SyncCallsAlwaysFetch(present) ==
  IF present THEN <<"match", "resolve", "access_ok", "sync_ok">>
  ELSE <<"match", "resolve", "access_fail", "sync_ok">>

\* collaborators invoked up to the allocation of the entry: the artifact
\* was readable (access() == 0), or it was absent and the fetch succeeded
SyncCalls(present) ==
  IF present THEN <<"match", "resolve", "access_ok">>
  ELSE <<"match", "resolve", "access_fail", "sync_ok">>

\* the iterator has returned repouri; what every iteration records
Fetched(repouri, res, cs) ==
  /\ pc = "init_loop"
  /\ repouri \in IterNextObjs
  /\ idx' = idx + 1
  /\ iterlist' = Append(iterlist, repouri)
  /\ itlog' = Append(itlog, [uri |-> repouri, res |-> res])
  /\ calls' = cs
  /\ UNCHANGED <<machine, repos_array, caller, visited>>

ContinueNoCount(missed) ==
  /\ nmissing' = nmissing
  /\ UNCHANGED <<repolist_initialized, doublefree, pc, ret, rpool, snapshot,
                 step_errno, init_rv>>

\* `continue`: the loop goes on with the queue as the iteration left it
Continue(missed) ==
  /\ nmissing' = nmissing + missed
  /\ UNCHANGED <<repolist_initialized, doublefree, pc, ret, rpool, snapshot,
                 step_errno, init_rv>>

AbortMasksErrno(e, hp) ==
  /\ UNCHANGED nmissing
  /\ step_errno' = e
  /\ InitOut(caller, ENOTSUP, repolist_initialized, rpool_queue, hp)

\* `goto out` with rv = e, the heap being hp
Abort(e, hp) ==
  /\ UNCHANGED nmissing
  /\ step_errno' = e
  /\ InitOut(caller, e, repolist_initialized, rpool_queue, hp)

IterDupCounted ==
  \E repouri \in IterNextObjs :
    /\ Fetched(repouri, "dup", <<>>)
    /\ duprepo(rpool_queue, heap, repouri)
    /\ ntotal' = ntotal + 1
    /\ UNCHANGED <<rpool_queue, heap>>
    /\ Continue(0)

\* lines 123-132: the location is already registered
IterDup ==
  \E repouri \in IterNextObjs :
    /\ Fetched(repouri, "dup", <<>>)
    /\ duprepo(rpool_queue, heap, repouri)
    /\ UNCHANGED <<ntotal, rpool_queue, heap>>
    /\ Continue(0)

\* lines 134-143: architecture not matched
IterArch ==
  \E repouri \in IterNextObjs :
    /\ Fetched(repouri, "arch", <<"match">>)
    /\ ~duprepo(rpool_queue, heap, repouri)
    /\ ~check_repo_arch(repouri, machine)
    /\ ntotal' = ntotal + 1
    /\ UNCHANGED <<rpool_queue, heap>>
    /\ Continue(1)

\* the location passes lines 123-143
Eligible(repouri) ==
  /\ ~duprepo(rpool_queue, heap, repouri)
  /\ check_repo_arch(repouri, machine)
  /\ ntotal' = ntotal + 1

\* lines 144-148: xbps_pkg_index_plist() == NULL
IterPlistFail ==
  \E repouri \in IterNextObjs, e \in AllocErrnos :
    /\ Fetched(repouri, "plistfail", <<"match", "resolve">>)
    /\ Eligible(repouri)
    /\ Abort(e, heap)

\* lines 153-157 with sync_remote_repo() (51-63): file absent, fetch fails
IterSyncFail ==
  \E repouri \in IterNextObjs :
    /\ Fetched(repouri, "syncfail",
               <<"match", "resolve", "access_fail", "sync_fail">>)
    /\ Eligible(repouri)
    /\ UNCHANGED <<rpool_queue, heap>>
    /\ Continue(1)

\* lines 162-167: malloc(struct repository_pool) fails
IterRpoolNoMem ==
  \E repouri \in IterNextObjs, present \in BOOLEAN, e \in AllocErrnos :
    /\ Fetched(repouri, "nomem_rpool", SyncCalls(present))
    /\ Eligible(repouri)
    /\ Abort(e, heap)

\* the entry cell of an iteration
NewCell == malloc(heap)

\* the heap once the cell holds the entry of repouri (rpi, rpi_uri)
WithCell(repouri) ==
  [heap EXCEPT ![NewCell] = [live |-> TRUE, uri |-> repouri]]

\* lines 169-175: malloc(struct repository_pool_index) fails; rpool freed
IterRpiNoMem ==
  \E repouri \in IterNextObjs, present \in BOOLEAN, e \in AllocErrnos :
    /\ Fetched(repouri, "nomem_rpi", SyncCalls(present))
    /\ Eligible(repouri)
    /\ NewCell # NULL
    /\ Abort(e, FreeCells(WithCell(repouri), {NewCell}))

\* lines 177-184: prop_string_cstring() fails; rpi and rpool freed
IterUriFail ==
  \E repouri \in IterNextObjs, present \in BOOLEAN, e \in AllocErrnos :
    /\ Fetched(repouri, "urifail", SyncCalls(present))
    /\ Eligible(repouri)
    /\ NewCell # NULL
    /\ Abort(e, FreeCells(WithCell(repouri), {NewCell}))

\* lines 185-198: internalize fails with errno == ENOENT; entry freed
IterNotFound ==
  \E repouri \in IterNextObjs, present \in BOOLEAN :
    /\ Fetched(repouri, "notfound", Append(SyncCalls(present), "deserialize"))
    /\ Eligible(repouri)
    /\ NewCell # NULL
    /\ heap' = FreeCells(WithCell(repouri), {NewCell})
    /\ UNCHANGED rpool_queue
    /\ Continue(1)

\* lines 185-203: internalize fails with another errno; entry freed
IterDeserFail ==
  \E repouri \in IterNextObjs, present \in BOOLEAN, e \in DeserErrnos :
    /\ Fetched(repouri, "deserfail", Append(SyncCalls(present), "deserialize"))
    /\ Eligible(repouri)
    /\ NewCell # NULL
    /\ Abort(e, FreeCells(WithCell(repouri), {NewCell}))

\* lines 204-207: SIMPLEQ_INSERT_TAIL
IterRegister ==
  \E repouri \in IterNextObjs, present \in BOOLEAN :
    /\ Fetched(repouri, "registered",
               Append(SyncCalls(present), "deserialize"))
    /\ Eligible(repouri)
    /\ NewCell # NULL
    /\ heap' = WithCell(repouri)
    /\ rpool_queue' = Append(rpool_queue, NewCell)
    /\ Continue(0)

InitFinishNoFlag ==
  /\ pc = "init_loop"
  /\ IterMayEnd
  /\ calls' = <<>>
  /\ UNCHANGED <<machine, caller, iterlist, idx, ntotal, nmissing, itlog,
                 visited, step_errno>>
  /\ IF ntotal - nmissing = 0
     THEN /\ UNCHANGED repos_array
          /\ InitOut(caller, ENOTSUP, repolist_initialized, rpool_queue, heap)
     ELSE /\ repos_array' = [state |-> "released", items |-> <<>>]
          /\ InitOut(caller, 0, repolist_initialized, rpool_queue, heap)

\* lines 210-225: the iterator is exhausted
InitFinish ==
  /\ pc = "init_loop"
  /\ IterMayEnd
  /\ calls' = <<>>
  /\ UNCHANGED <<machine, caller, iterlist, idx, ntotal, nmissing, itlog,
                 visited, step_errno>>
  /\ IF ntotal - nmissing = 0
     THEN /\ UNCHANGED repos_array
          /\ InitOut(caller, ENOTSUP, repolist_initialized, rpool_queue, heap)
     ELSE /\ repos_array' = [state |-> "released", items |-> <<>>]
          /\ InitOut(caller, 0, TRUE, rpool_queue, heap)

\* ------------------------------------------------------------ release

\* the records of the previous operation are dropped
NoHistory ==
  /\ itlog' = <<>> /\ calls' = <<>> /\ visited' = <<>> /\ snapshot' = <<>>
  /\ iterlist' = <<>> /\ idx' = 0 /\ ntotal' = 0 /\ nmissing' = 0
  /\ step_errno' = 0 /\ init_rv' = -1

\* a release entry point that tears the queue down whatever the flag says
ReleaseUnguarded ==
  /\ pc = "idle"
  /\ LET r == PoolRelease(TRUE, rpool_queue, heap, doublefree)
     IN  /\ repolist_initialized' = r.init
         /\ rpool_queue' = r.queue
         /\ heap' = r.heap
         /\ doublefree' = r.dfree
  /\ ret' = [op |-> "release", rv |-> 0]
  /\ NoHistory
  /\ UNCHANGED <<machine, repos_array, pc, caller, rpool>>

\* xbps_repository_pool_release() called by the client
xbps_repository_pool_release ==
  /\ pc = "idle"
  /\ LET r == PoolRelease(repolist_initialized, rpool_queue, heap, doublefree)
     IN  /\ repolist_initialized' = r.init
         /\ rpool_queue' = r.queue
         /\ heap' = r.heap
         /\ doublefree' = r.dfree
  /\ ret' = [op |-> "release", rv |-> 0]
  /\ NoHistory
  /\ UNCHANGED <<machine, repos_array, pc, caller, rpool>>

\* --------------------------------------------------- foreach: traversal

CbStatus == {0, 1}

\* SIMPLEQ_FOREACH: the successor is read after the callback has run
ForeachNextUnsafe(qbefore, qafter, cell) == SimpleqNext(qafter, cell)

\* SIMPLEQ_FOREACH_SAFE: the successor is read from the queue as it was
\* before the callback ran
ForeachNext(qbefore, qafter, cell) == SimpleqNext(qbefore, cell)

\* line 276: the traversal stops after this callback
BreakOnStatusOnly(cbrv, done) == cbrv # 0

Break(cbrv, done) == cbrv # 0 \/ done

\* the callback unregisters the entry it is visiting
RemoveCurrent(q, cell) == SimpleqRemove(q, cell)

\* lines 274-280: one callback invocation, then break, advance or return
ForeachStep ==
  /\ pc = "foreach_loop"
  /\ rpool # NULL
  /\ \E cbrv \in CbStatus, done \in BOOLEAN, remove \in BOOLEAN :
       LET q2 == IF remove THEN RemoveCurrent(rpool_queue, rpool)
                 ELSE rpool_queue
           rpool_new == ForeachNext(rpool_queue, q2, rpool)
       IN  /\ visited' = Append(visited,
                 [cell |-> rpool, uri |-> heap[rpool].uri,
                  live |-> heap[rpool].live,
                  rv |-> cbrv, done |-> done, removed |-> remove])
           /\ rpool_queue' = q2
           /\ heap' = IF remove THEN FreeCells(heap, {rpool}) ELSE heap
           /\ doublefree' = (doublefree \/ (remove /\ ~heap[rpool].live))
           /\ ret' = [op |-> "foreach", rv |-> cbrv]
           /\ IF Break(cbrv, done) \/ rpool_new = NULL
              THEN pc' = "idle" /\ rpool' = NULL
              ELSE pc' = "foreach_loop" /\ rpool' = rpool_new
  /\ UNCHANGED <<machine, repos_array, repolist_initialized, caller,
                 iterlist, idx, ntotal, nmissing, itlog, calls, snapshot,
                 step_errno, init_rv>>

\* ------------------------------------------------------- configuration

\* the client drops the array of the handle, or installs a new empty one
SetReposArray ==
  /\ pc = "idle"
  /\ \E st \in {"null", "valid"} :
       /\ repos_array # [state |-> st, items |-> <<>>]
       /\ repos_array' = [state |-> st, items |-> <<>>]
  /\ ret' = [op |-> "setrepos", rv |-> 0]
  /\ NoHistory
  /\ UNCHANGED <<machine, repolist_initialized, rpool_queue, heap,
                 doublefree, pc, caller, rpool>>

\* the client appends a repository to the array of the handle
AddRepository ==
  /\ pc = "idle"
  /\ repos_array.state = "valid"
  /\ Len(repos_array.items) < MaxRepos
  /\ \E u \in Uris :
       repos_array' = [repos_array EXCEPT !.items = Append(@, u)]
  /\ ret' = [op |-> "setrepos", rv |-> 0]
  /\ NoHistory
  /\ UNCHANGED <<machine, repolist_initialized, rpool_queue, heap,
                 doublefree, pc, caller, rpool>>

Next ==
  \/ xbps_repository_pool_init
  \/ xbps_repository_pool_foreach
  \/ IterDup
  \/ IterArch
  \/ IterPlistFail
  \/ IterSyncFail
  \/ IterRpoolNoMem
  \/ IterRpiNoMem
  \/ IterUriFail
  \/ IterNotFound
  \/ IterDeserFail
  \/ IterRegister
  \/ InitFinish
  \/ xbps_repository_pool_release
  \/ ForeachStep
  \/ SetReposArray
  \/ AddRepository

Spec == Init /\ [][Next]_vars

\* ------------------------------------- check_repo_arch() on bounded URIs
\* A second specification hands init a one-location repos_array whose URI
\* is any string of at most MaxTokens tokens, so that check_repo_arch()
\* meets URIs without a separator, with an empty last component and with
\* "noarch" or a machine name in every position.

ArchTokens == {<<"/">>, NoArch, <<"x">>} \cup Machines

RECURSIVE Concat(_)
Concat(ts) == IF ts = <<>> THEN <<>> ELSE Head(ts) \o Concat(Tail(ts))

ArchUris ==
  {Concat(ts) : ts \in UNION {[1..n -> ArchTokens] : n \in 1..MaxTokens}}

ArchInit ==
  /\ machine \in Machines
  /\ \E u \in ArchUris : repos_array = [state |-> "valid", items |-> <<u>>]
  /\ repolist_initialized = FALSE
  /\ rpool_queue = <<>>
  /\ heap = [n \in Nodes |-> FreeCell]
  /\ doublefree = FALSE
  /\ pc = "idle"
  /\ caller = "init"
  /\ iterlist = <<>>
  /\ idx = 0
  /\ ntotal = 0
  /\ nmissing = 0
  /\ itlog = <<>>
  /\ calls = <<>>
  /\ step_errno = 0
  /\ init_rv = -1
  /\ ret = [op |-> "none", rv |-> 0]
  /\ rpool = NULL
  /\ snapshot = <<>>
  /\ visited = <<>>

ArchNext ==
  \/ xbps_repository_pool_init
  \/ IterArch
  \/ IterPlistFail
  \/ IterSyncFail
  \/ IterRpiNoMem
  \/ IterUriFail
  \/ IterNotFound
  \/ IterDeserFail
  \/ IterRegister
  \/ InitFinish

ArchSpec == ArchInit /\ [][ArchNext]_vars

\* ================================================================ claims

FatalRes == {"plistfail", "nomem_rpool", "nomem_rpi", "urifail", "deserfail"}

\* an operation has returned and nothing is in progress
Idle == pc = "idle"

\* the last operation ran init (directly or from foreach)
RanInit == ret.op \in {"init", "foreach"}

\* the init of the last operation was aborted by a fatal failure in its loop
FatalAbort ==
  /\ Idle /\ RanInit
  /\ itlog # <<>>
  /\ itlog[Len(itlog)].res \in FatalRes

\* the init of the last operation ran its loop to the end of the iterator
LoopCompleted ==
  /\ Idle /\ RanInit
  /\ idx >= 1
  /\ itlog # <<>> => itlog[Len(itlog)].res \notin FatalRes

\* no callback of the traversal asked to stop
NeverStopped ==
  \A i \in 1..Len(visited) : visited[i].rv = 0 /\ ~visited[i].done

LiveCells == {n \in Nodes : heap[n].live}

\* C1: when init aborts with a fatal error after zero or more entries were
\* appended, it returns that error and the queue is empty on return.
C1_FatalAbortLeavesCleanState ==
  FatalAbort => (ret.rv \notin {0, ENOTSUP} /\ rpool_queue = <<>>)

\* C2: between operations, repolist_initialized = FALSE implies that the
\* queue is empty.
C2_UninitializedImpliesEmpty ==
  (Idle /\ ~repolist_initialized) => rpool_queue = <<>>

\* init is entered, directly or from foreach
InitCalled ==
  /\ pc = "idle"
  /\ xbps_repository_pool_init \/ xbps_repository_pool_foreach

\* the call of init returned 0 at once: no loop, no collaborator, the pool
\* as it was
ReturnedSuccessAtOnce ==
  /\ pc' # "init_loop"
  /\ ret'.rv = 0
  /\ itlog' = <<>> /\ calls' = <<>>
  /\ UNCHANGED <<rpool_queue, repolist_initialized, heap>>

C4_Dedup ==
  \A i, j \in 1..Len(rpool_queue) :
    i # j => heap[rpool_queue[i]].uri # heap[rpool_queue[j]].uri

\* a build walked an array with a repeated location, skipped the repeat and
\* succeeded
C4_Witness ==
  /\ Idle /\ ret = [op |-> "init", rv |-> 0]
  /\ repolist_initialized
  /\ \E i, j \in 1..Len(iterlist) :
       /\ i < j /\ iterlist[i] = iterlist[j]
       /\ itlog[i].res = "registered" /\ itlog[j].res = "dup"

\* the walked array restricted, for each location the build registered, to
\* the first occurrence whose pipeline ended in the registration
ExpectedRegistry ==
  LET keep(i) == /\ itlog[i].res = "registered"
                 /\ \A j \in 1..(i - 1) :
                      iterlist[j] = iterlist[i] => itlog[j].res # "registered"
      ks == SelectSeq([i \in 1..Len(iterlist) |-> i], keep)
  IN  [k \in 1..Len(ks) |-> iterlist[ks[k]]]

\* a build ran its loop and succeeded in the last operation
BuiltNow == Idle /\ RanInit /\ idx >= 1 /\ repolist_initialized

\* C5: after a successful build the locations of the queue are the
\* configured list restricted to the first occurrence of each location that
\* was registered, in configured order; a foreach that never stops visits
\* the entries in that order.
C5_OrderingPreserved ==
  BuiltNow =>
    /\ ret.op = "init" => QueueUris(rpool_queue, heap) = ExpectedRegistry
    /\ (ret.op = "foreach" /\ NeverStopped) =>
         [i \in 1..Len(visited) |-> visited[i].uri] = ExpectedRegistry

\* C6: once a callback returns non-zero or sets the stop signal no further
\* callback is invoked in that traversal and foreach returns the status of
\* that last invocation; if no callback stops, every entry is visited and
\* foreach returns zero.
C6_EarlyStop ==
  /\ \A i \in 1..(Len(visited) - 1) : visited[i].rv = 0 /\ ~visited[i].done
  /\ (Idle /\ ret.op = "foreach" /\ visited # <<>>) =>
        ret.rv = visited[Len(visited)].rv
  /\ (Idle /\ ret.op = "foreach" /\ snapshot # <<>> /\ NeverStopped) =>
        /\ Len(visited) = Len(snapshot)
        /\ ret.rv = 0

\* the callback set the stop signal, with status 0, on the second of three
\* entries and foreach returned after two visits
C6_Witness ==
  /\ Idle /\ ret.op = "foreach"
  /\ Len(snapshot) = 3 /\ Len(visited) = 2
  /\ visited[2].done /\ visited[2].rv = 0

\* C7: in a foreach whose callbacks never stop and may each remove the
\* entry being visited, every entry that was in the queue when the
\* traversal began is visited exactly once, in queue order, and no removed
\* entry is dereferenced after its callback returned.
C7_SafeMutationDuringTraversal ==
  snapshot # <<>> =>
    /\ Len(visited) <= Len(snapshot)
    /\ \A i \in 1..Len(visited) :
         visited[i].cell = snapshot[i] /\ visited[i].live
    /\ pc = "foreach_loop" =>
         /\ Len(visited) < Len(snapshot)
         /\ rpool = snapshot[Len(visited) + 1]
         /\ heap[rpool].live
    /\ (Idle /\ NeverStopped) => Len(visited) = Len(snapshot)

\* a traversal of three entries whose first two callbacks removed the entry
\* they visited ran to the end
C7_Witness ==
  /\ Idle /\ ret.op = "foreach" /\ NeverStopped
  /\ Len(snapshot) = 3 /\ Len(visited) = 3
  /\ visited[1].removed /\ visited[2].removed
  /\ Len(rpool_queue) = 1

\* C8: release called while repolist_initialized is FALSE changes neither
\* the queue nor the flag, destroys nothing and returns normally.
C8_ReleaseSafety ==
  [][(~repolist_initialized /\ xbps_repository_pool_release) =>
        /\ UNCHANGED <<rpool_queue, repolist_initialized, heap, doublefree>>
        /\ pc' = "idle"]_vars

\* release has returned on a pool that is not initialized although entries
\* are queued
C8_Witness ==
  /\ Idle /\ ret.op = "release"
  /\ ~repolist_initialized
  /\ rpool_queue # <<>>

\* C9: every entry created is destroyed exactly once, in the rollback of a
\* failed build or in release: nothing is freed twice, and once the pool is
\* back to uninitialized (after a rollback or a release) no created entry
\* remains undestroyed.
C9_DestroyedExactlyOnce ==
  /\ ~doublefree
  /\ (Idle /\ ~repolist_initialized) => LiveCells = {}

\* C10: when init runs its loop to completion and registers no usable
\* repository it fails with ENOTSUP, the flag stays FALSE and the queue is
\* empty; and ENOTSUP is reported after the loop only when no usable
\* repository is registered.
C10_NoUsableRepositoryUnsupported ==
  LoopCompleted =>
    /\ (\A i \in 1..Len(itlog) : itlog[i].res # "registered") =>
          /\ ret.rv = ENOTSUP
          /\ ~repolist_initialized
          /\ rpool_queue = <<>>
    /\ ret.rv = ENOTSUP => rpool_queue = <<>>

\* the per-location outcomes that init counts as missing and survives
RecoverableRes == {"arch", "syncfail", "notfound"}

\* C11: an architecture mismatch, a failed fetch and an index that is not
\* found (ENOENT) each add exactly one to nmissing, queue no entry, leave
\* the queue and its entries as they were, and the loop goes on with the
\* next location without returning; and init never returns ENOENT.
C11_RecoverableNeverAborts ==
  [][/\ (IterArch \/ IterSyncFail \/ IterNotFound) =>
          /\ nmissing' = nmissing + 1
          /\ ntotal' = ntotal + 1
          /\ rpool_queue' = rpool_queue
          /\ \A k \in 1..Len(rpool_queue) :
                heap'[rpool_queue[k]] = heap[rpool_queue[k]]
          /\ pc' = "init_loop"
          /\ idx' = idx + 1
          /\ init_rv' = -1
          /\ step_errno' = 0
     /\ init_rv' # ENOENT]_vars

\* a build that met a recoverable failure after registering an entry, went
\* on to register a later location and succeeded
C11_Witness ==
  /\ BuiltNow /\ ret.rv = 0
  /\ \E i, j, k \in 1..Len(itlog) :
       /\ i < j /\ j < k
       /\ itlog[i].res = "registered"
       /\ itlog[j].res \in RecoverableRes
       /\ itlog[k].res = "registered"
  /\ nmissing = 1

\* the call of init made by the latest operation has returned
InitReturned == init_rv # -1

\* C12: when the init that foreach calls fails, with ENOTSUP or with any
\* other error, foreach has returned that very value and the callback was
\* never invoked.
C12_ForeachPropagatesInitFailure ==
  (ret.op = "foreach" /\ InitReturned /\ init_rv # 0) =>
     /\ pc = "idle"
     /\ ret.rv = init_rv
     /\ visited = <<>>
     /\ rpool = NULL

\* foreach has returned the errno of an aborted build although entries are
\* queued
C12_Witness ==
  /\ Idle /\ ret.op = "foreach"
  /\ init_rv \in AllocErrnos \cup DeserErrnos
  /\ ret.rv = init_rv
  /\ rpool_queue # <<>>
  /\ visited = <<>>

\* strrchr()/strcmp() said otherwise: some '/' of the URI has no '/' after
\* it and is followed by exactly "noarch" or the machine name
ArchMatches(uri, mach) ==
  \E k \in 1..Len(uri) :
    /\ uri[k] = "/"
    /\ \A j \in (k + 1)..Len(uri) : uri[j] # "/"
    /\ k < Len(uri)
    /\ SubSeq(uri, k + 1, Len(uri)) \in {NoArch, mach}

\* C13: check_repo_arch() accepts a location exactly when it has a '/' and
\* the non-empty text after its last '/' is "noarch" or the host's machine
\* name; a location it rejects is counted in nmissing and is never queued.
C13_ArchitectureFilter ==
  /\ \A i \in 1..Len(itlog) :
       itlog[i].res # "dup" =>
         (itlog[i].res = "arch" <=> ~ArchMatches(itlog[i].uri, machine))
  /\ \A k \in 1..Len(rpool_queue) :
       heap[rpool_queue[k]].live =>
         ArchMatches(heap[rpool_queue[k]].uri, machine)
  /\ nmissing >= Cardinality({i \in 1..Len(itlog) : itlog[i].res = "arch"})

\* the location "noarch", which has no separator, was rejected and counted
C13_Witness ==
  /\ Idle /\ ret = [op |-> "init", rv |-> ENOTSUP]
  /\ itlog = <<[uri |-> NoArch, res |-> "arch"]>>
  /\ nmissing = 1
  /\ rpool_queue = <<>>

\* C14: a fatal failure (iterator, path resolution, allocation, URI copy,
\* deserialization other than ENOENT) ends init at once: the failing
\* location is the last one any collaborator was invoked for, and init has
\* returned the non-zero errno of the failing step.
C14_FatalAbortsAndPropagates ==
  /\ \A i \in 1..Len(itlog) :
       itlog[i].res \in FatalRes =>
          /\ i = Len(itlog)
          /\ idx = i + 1
          /\ pc = "idle"
          /\ step_errno # 0
  /\ step_errno # 0 =>
       /\ pc = "idle"
       /\ InitReturned
       /\ init_rv = step_errno
       /\ ret.rv = step_errno
       /\ visited = <<>>

\* the deserializer failed with EIO at the second of three configured
\* locations and init returned EIO
C14_Witness ==
  /\ Idle /\ ret = [op |-> "init", rv |-> EIO]
  /\ repos_array.state = "valid" /\ Len(repos_array.items) = 3
  /\ Len(itlog) = 2
  /\ itlog[1].res = "registered"
  /\ itlog[2].res = "deserfail"
  /\ step_errno = EIO

C16_TotalIsDistinctLocations ==
  LoopCompleted =>
    ntotal = Cardinality({iterlist[i] : i \in 1..Len(iterlist)})

\* the loop of a direct call of init is running or has ended
InitCounting == idx >= 1 /\ (pc = "init_loop" \/ (Idle /\ ret.op = "init"))

\* position i met a queue that held no entry for its URI: the URI is not
\* queued now, or it was queued at position i or later
NotQueuedWhenReached(i) ==
  \/ \A k \in 1..Len(rpool_queue) :
        heap[rpool_queue[k]].uri # itlog[i].uri
  \/ \E j \in i..Len(itlog) :
        itlog[j].uri = itlog[i].uri /\ itlog[j].res = "registered"

\* C16, amended: ntotal is the number of locations the iterator returned
\* for which the queue held no entry with the same URI when the location
\* was reached, whatever became of the location afterwards; a repeated
\* location is counted again unless an earlier occurrence is registered.
C16_TotalIsNotQueuedLocations ==
  InitCounting =>
    ntotal = Cardinality({i \in 1..Len(itlog) : NotQueuedWhenReached(i)})

\* on an empty queue the same location came twice, the fetch failed the
\* first time and the second was registered: two counted, one distinct
C16_Witness ==
  /\ LoopCompleted /\ ret = [op |-> "init", rv |-> 0]
  /\ Len(itlog) = 2
  /\ itlog[1].uri = itlog[2].uri
  /\ itlog[1].res = "syncfail"
  /\ itlog[2].res = "registered"
  /\ Len(rpool_queue) = 1
  /\ ntotal = 2

\* what the loop has registered so far, were it started on an empty queue
RegisteredSoFar ==
  LET reg(e) == e.res = "registered"
      es == SelectSeq(itlog, reg)
  IN  [k \in 1..Len(es) |-> es[k].uri]

\* C17: an init called after a failed init behaves as on a pool that was
\* never built: with the same list and the same collaborator outcomes the
\* loop skips as duplicates only locations it has registered itself, counts
\* every other location, and holds in the queue what it has registered
\* itself.
C17_RebuildLikeFresh ==
  InitCounting =>
    /\ \A i \in 1..Len(itlog) :
         itlog[i].res = "dup" =>
           \E j \in 1..(i - 1) :
             itlog[j].uri = itlog[i].uri /\ itlog[j].res = "registered"
    /\ QueueUris(rpool_queue, heap) = RegisteredSoFar
    /\ ntotal = Cardinality({i \in 1..Len(itlog) :
                    \A j \in 1..(i - 1) :
                      itlog[j].uri = itlog[i].uri =>
                        itlog[j].res # "registered"})

\* C18: once a successful init has released repos_array (line 217) no
\* later step of the pool reads it: init does not take its count (line
\* 110) or create its iterator (line 113), and no iteration of the init
\* loop advances an iterator over it.
C18_ReleasedListNeverRead ==
  [][repos_array.state = "released" =>
       /\ pc # "init_loop"
       /\ ~(~repolist_initialized /\ InitCalled)]_vars

\* C19: init (directly or from foreach) on a pool that is not initialized
\* whose repos_array is NULL or empty returns ENOTSUP in that very step,
\* leaves the flag, the queue and its entries as they were and invokes no
\* collaborator and no callback.
C19_NoListUnsupportedNoChange ==
  [][(/\ ~repolist_initialized
      /\ \/ repos_array.state = "null"
         \/ repos_array.state = "valid" /\ repos_array.items = <<>>
      /\ InitCalled) =>
        /\ pc' = "idle"
        /\ init_rv' = ENOTSUP
        /\ ret'.rv = ENOTSUP
        /\ UNCHANGED <<repolist_initialized, rpool_queue, heap, repos_array>>
        /\ itlog' = <<>> /\ calls' = <<>> /\ visited' = <<>>]_vars

\* init has answered ENOTSUP for an empty array on a pool that is not
\* initialized and has entries queued
C19_Witness ==
  /\ Idle /\ ret = [op |-> "init", rv |-> ENOTSUP]
  /\ repos_array = [state |-> "valid", items |-> <<>>]
  /\ ~repolist_initialized
  /\ rpool_queue # <<>>
  /\ idx = 0

\* the outcome of the latest iteration of the init loop
LastRes == IF itlog = <<>> THEN "none" ELSE itlog[Len(itlog)].res

\* C20: within one iteration the fetch is invoked only after the matcher
\* accepted the location, its index path was resolved and access() found
\* the index absent; the deserializer is invoked only right after access()
\* found the index present or the fetch succeeded; an iteration skipped as
\* a duplicate invokes nothing and one rejected by the matcher invokes the
\* matcher alone.
C20_PipelineOrder ==
  /\ \A k \in 1..Len(calls) :
       calls[k] \in {"sync_ok", "sync_fail"} =>
          /\ k = 4
          /\ SubSeq(calls, 1, 3) = <<"match", "resolve", "access_fail">>
          /\ LastRes \notin {"dup", "arch"}
          /\ check_repo_arch(itlog[Len(itlog)].uri, machine)
  /\ \A k \in 1..Len(calls) :
       calls[k] = "deserialize" =>
          /\ k = Len(calls)
          /\ \/ SubSeq(calls, 1, k - 1) = <<"match", "resolve", "access_ok">>
             \/ SubSeq(calls, 1, k - 1) =
                  <<"match", "resolve", "access_fail", "sync_ok">>
          /\ LastRes \notin {"dup", "arch"}
          /\ check_repo_arch(itlog[Len(itlog)].uri, machine)
  /\ (pc = "init_loop" /\ LastRes = "dup") => calls = <<>>
  /\ (pc = "init_loop" /\ LastRes = "arch") => calls = <<"match">>

\* an iteration found the index absent, fetched it, deserialized it and
\* registered the repository
C20_Witness ==
  /\ pc = "init_loop"
  /\ LastRes = "registered"
  /\ calls = <<"match", "resolve", "access_fail", "sync_ok", "deserialize">>

====
